---- MODULE Spec2Model ----
(***************************************************************************)
(* A model of the audit engine of AuditBuild (buildaudit.py):              *)
(*   - BuildAudit.setup   : the pre-existing snapshot and the reference    *)
(*                          clock (get_time_past), run against a file      *)
(*                          system clock of some granularity;              *)
(*   - BuildAudit.update  : the classification walk (visit) and the        *)
(*                          persistence of the audit record.               *)
(*   - BuildAudit         : the construction of the store on the database  *)
(*                          file and the queries old_data, old_targets;    *)
(*   - AuditBuild.main    : the steps of one run up to the build command.  *)
(* Time stamps are integers.  Python dictionaries are functions; a path is *)
(* the sequence of its components, <<"sub", "a.o">> for sub/a.o, and an    *)
(* absolute path starts with the empty component, <<"", "w">> for /w.      *)
(***************************************************************************)
EXTENDS FiniteSets, Integers, Sequences, TLC

VARIABLES
  pc,            \* position of the calling program
  basedir,       \* the tree root handed to setup and update (build_base)
  files,         \* the tree: relative path -> [ex, at, mt]
  pre_existing,  \* self.pre_existing (its keys)
  reftime,       \* self.reftime
  prereqs, intermediates, terminals, unused,   \* the dictionaries of one pass
  new_targets,   \* self.new_targets
  lost,          \* the files deleted between their listing and their stat
  db,            \* self.db
  dbfile,        \* the content of the database file
  dbwrites,      \* how often the database file was opened for writing
  warned,        \* the warnings issued
  key, replace,  \* the arguments of the last call of update
  db_pre, dbfile_pre,   \* self.db and the database file when update was entered
  now,           \* the clock of the file system
  gran,          \* the granularity of the time stamps of the file system
  noatime_fs,    \* the file system does not record reads (a noatime mount)
  mtime1, atime1, mtime2, atime2,   \* the samples of setup
  era,           \* relative path -> [at, mt]: when each stamp was set
  opts,          \* the options and the environment of one run of main
  status,        \* how the run ended: "running", an exit status or an exception
  log,           \* the steps main has taken, in order
  results        \* what the last query of the store returned

vars == << pc, basedir, files, pre_existing, reftime, prereqs, intermediates,
           terminals, unused, new_targets, lost, db, dbfile, dbwrites, warned, key,
           replace, db_pre, dbfile_pre, now, gran, noatime_fs, mtime1, atime1,
           mtime2, atime2, era, opts, status, log, results >>

treeVars  == << basedir, files, pre_existing, reftime >>
passVars  == << prereqs, intermediates, terminals, unused, new_targets, lost >>
storeVars == << db, dbfile, dbwrites, warned, key, replace, db_pre, dbfile_pre >>
clockVars == << now, gran, noatime_fs, mtime1, atime1, mtime2, atime2, era >>
mainVars  == << opts, status, log, results >>

----------------------------------------------------------------------------
(* Bounds *)

MaxStamp == 2      \* time stamps of the drawn trees range over 0..MaxStamp

MaxNow == 6        \* the clock of the file system stops at MaxNow

MaxKeys == 2       \* a query of the store lists at most MaxKeys keys

----------------------------------------------------------------------------
(* The universe of the model *)

ref_file == ".audit-ref.tmp"

RefPath == << ref_file >>

RegularPaths == { << "a.c" >>, << "sub", "a.o" >> }

\* the default name of the database file; main runs in the root of the tree
\* and the file lies in it
dbname == "BuildAudit.json"

DbPath == << dbname >>

\* a file of the version control system, below the root of the tree
SvnPath == << ".svn", "entries" >>

Paths == RegularPaths \cup { RefPath, DbPath, SvnPath }

BaseDirs == { << "", "w" >> }

Keys == { "k1", "k2" }

SvnNames == { ".svn" }      \* the component names that start with '.svn'

EmptyDict == [ x \in {} |-> "P" ]

\* the options and the environment of a run of main: --external-base, --fresh,
\* what the build command asks for ("dry_run": make -n, "special": another
\* special flag of make or --execute-only, "audit": none of them), whether the
\* prebuild commands and rsync succeed.  --clean, --dbname, --base-url,
\* --extract-dirs-with-fallback, --retry-in-place and --edit are not given.
Options ==
  [ external_base : BOOLEAN, fresh : BOOLEAN,
    mode : { "audit", "dry_run", "special" },
    prebuild_ok : BOOLEAN, rsync_ok : BOOLEAN ]

\* no option is given and every command succeeds
NoOpts ==
  [ external_base |-> FALSE, fresh |-> FALSE, mode |-> "audit",
    prebuild_ok |-> TRUE, rsync_ok |-> TRUE ]

NoStat == [ ex |-> FALSE, at |-> 0, mt |-> 0 ]

\* no query of the store was made
NoResults == [ call |-> "", keys |-> << >>, value |-> EmptyDict ]

----------------------------------------------------------------------------
(* Dictionaries *)

\* d = {k: v}: the other entries are dropped
dict_set_only(d, k, v) == [ x \in {k} |-> v ]

\* d[k] = v
dict_set(d, k, v) ==
  [ x \in (DOMAIN d) \cup {k} |-> IF x = k THEN v ELSE d[x] ]

\* d.update(e)
dict_update(d, e) ==
  [ x \in (DOMAIN d) \cup (DOMAIN e) |-> IF x \in DOMAIN e THEN e[x] ELSE d[x] ]

----------------------------------------------------------------------------
(* Paths and the tree *)

\* os.path.join(parent, fn)
join(parent, fn) == Append(parent, fn)

\* os.path.relpath(path, start), for a path below start
relpath(path, start) == SubSeq(path, Len(start) + 1, Len(path))

\* str.startswith('.svn') of a path string: the string begins with its first
\* component (an absolute path begins with '/')
startswith_svn(parent) == Len(parent) > 0 /\ Head(parent) \in SvnNames

\* a file lies below a directory whose name starts with '.svn'
UnderSvn(p) == \E i \in 1 .. (Len(p) - 1) : p[i] \in SvnNames

IsPrefix(d, p) == Len(d) <= Len(p) /\ SubSeq(p, 1, Len(d)) = d

\* the absolute paths of the files that exist
AbsFiles == { basedir \o p : p \in { q \in Paths : files[q].ex } }

\* os.path.isdir(path)
isdir(path) == \E f \in AbsFiles : IsPrefix(path, f) /\ f # path

\* os.listdir(top)
listdir(top) ==
  { f[Len(top) + 1] : f \in { g \in AbsFiles : IsPrefix(top, g) /\ g # top } }

\* os.lstat(path)
lstat(path) == files[relpath(path, basedir)]

\* os.lstat(path) raises OSError: the file is no longer there
lstat_raises(path, gone) == relpath(path, basedir) \in gone

\* a walk that reads what it visits, as os.walk does with symbolic links: the
\* access time moves to the time of the pass
os_walk_touches(f) ==
  [ p \in DOMAIN f |->
      IF f[p].ex /\ f[p].at < reftime THEN [ f[p] EXCEPT !.at = reftime ] ELSE f[p] ]

\* what the listing and the stat calls of the pass do to the stamps of the
\* files: nothing ("do NOT use os.walk here")
walk_touches(f) == f

----------------------------------------------------------------------------
(* BuildAudit.update: the classification walk *)

EmptyPass ==
  [ prereqs |-> EmptyDict, intermediates |-> EmptyDict,
    terminals |-> EmptyDict, unused |-> EmptyDict ]

\* visit_one with "if" for the "elif" of the Intermediate/Terminal split
visit_one_if(acc, parent, fn) ==
  IF fn = ref_file THEN acc
  ELSE LET path == join(parent, fn) IN
    IF isdir(path) THEN acc
    ELSE LET rpath  == relpath(path, basedir)
             stats  == lstat(path)
             adelta == stats.at - reftime
             mdelta == stats.mt - reftime
             acc1   == IF adelta >= 0 /\ rpath \in pre_existing
                       THEN [acc EXCEPT !.prereqs = dict_set(@, rpath, "P")]
                       ELSE acc
         IN IF mdelta >= 0
            THEN IF adelta > mdelta
                 THEN [acc1 EXCEPT !.intermediates = dict_set(@, rpath, "I")]
                 ELSE [acc1 EXCEPT !.terminals = dict_set(@, rpath, "T")]
            ELSE IF adelta >= 0 /\ rpath \in pre_existing
                 THEN [acc EXCEPT !.prereqs = dict_set(@, rpath, "P")]
                 ELSE [acc EXCEPT !.unused = dict_set(@, rpath, "U")]

\* visit_one with the Intermediate test ahead of the pre-existence guard
visit_one_split_first(acc, parent, fn) ==
  IF fn = ref_file THEN acc
  ELSE LET path == join(parent, fn) IN
    IF isdir(path) THEN acc
    ELSE LET rpath  == relpath(path, basedir)
             stats  == lstat(path)
             adelta == stats.at - reftime
             mdelta == stats.mt - reftime
         IN IF mdelta >= 0
            THEN IF adelta > mdelta
                 THEN [acc EXCEPT !.intermediates = dict_set(@, rpath, "I")]
                 ELSE IF adelta >= 0 /\ rpath \in pre_existing
                 THEN [acc EXCEPT !.prereqs = dict_set(@, rpath, "P")]
                 ELSE [acc EXCEPT !.terminals = dict_set(@, rpath, "T")]
            ELSE IF adelta >= 0 /\ rpath \in pre_existing
                 THEN [acc EXCEPT !.prereqs = dict_set(@, rpath, "P")]
                 ELSE [acc EXCEPT !.unused = dict_set(@, rpath, "U")]

\* visit_one with "adelta >= mdelta" for "adelta > mdelta"
visit_one_ge(acc, parent, fn) ==
  IF fn = ref_file THEN acc
  ELSE LET path == join(parent, fn) IN
    IF isdir(path) THEN acc
    ELSE LET rpath  == relpath(path, basedir)
             stats  == lstat(path)
             adelta == stats.at - reftime
             mdelta == stats.mt - reftime
         IN IF mdelta >= 0
            THEN IF adelta >= 0 /\ rpath \in pre_existing
                 THEN [acc EXCEPT !.prereqs = dict_set(@, rpath, "P")]
                 ELSE IF adelta >= mdelta
                 THEN [acc EXCEPT !.intermediates = dict_set(@, rpath, "I")]
                 ELSE [acc EXCEPT !.terminals = dict_set(@, rpath, "T")]
            ELSE IF adelta >= 0 /\ rpath \in pre_existing
                 THEN [acc EXCEPT !.prereqs = dict_set(@, rpath, "P")]
                 ELSE [acc EXCEPT !.unused = dict_set(@, rpath, "U")]

\* visit_one with the access test of the last "elif" dropped
visit_one_pre_only(acc, parent, fn) ==
  IF fn = ref_file THEN acc
  ELSE LET path == join(parent, fn) IN
    IF isdir(path) THEN acc
    ELSE LET rpath  == relpath(path, basedir)
             stats  == lstat(path)
             adelta == stats.at - reftime
             mdelta == stats.mt - reftime
         IN IF mdelta >= 0
            THEN IF adelta >= 0 /\ rpath \in pre_existing
                 THEN [acc EXCEPT !.prereqs = dict_set(@, rpath, "P")]
                 ELSE IF adelta > mdelta
                 THEN [acc EXCEPT !.intermediates = dict_set(@, rpath, "I")]
                 ELSE [acc EXCEPT !.terminals = dict_set(@, rpath, "T")]
            ELSE IF rpath \in pre_existing
                 THEN [acc EXCEPT !.prereqs = dict_set(@, rpath, "P")]
                 ELSE [acc EXCEPT !.unused = dict_set(@, rpath, "U")]

\* the body of visit's loop for one name fn of the directory parent; acc holds
\* the four dictionaries
visit_one(acc, parent, fn) ==
  IF fn = ref_file THEN acc
  ELSE LET path == join(parent, fn) IN
    IF isdir(path) THEN acc
    ELSE LET rpath  == relpath(path, basedir)
             stats  == lstat(path)
             adelta == stats.at - reftime
             mdelta == stats.mt - reftime
         IN IF mdelta >= 0
            THEN IF adelta >= 0 /\ rpath \in pre_existing
                 THEN [acc EXCEPT !.prereqs = dict_set(@, rpath, "P")]
                 ELSE IF adelta > mdelta
                 THEN [acc EXCEPT !.intermediates = dict_set(@, rpath, "I")]
                 ELSE [acc EXCEPT !.terminals = dict_set(@, rpath, "T")]
            ELSE IF adelta >= 0 /\ rpath \in pre_existing
                 THEN [acc EXCEPT !.prereqs = dict_set(@, rpath, "P")]
                 ELSE [acc EXCEPT !.unused = dict_set(@, rpath, "U")]

RECURSIVE visit_names(_, _, _)
\* for fn in files
visit_names(acc, parent, names) ==
  IF names = {} THEN acc
  ELSE LET fn == CHOOSE n \in names : TRUE
       IN visit_names(visit_one(acc, parent, fn), parent, names \ {fn})

\* visit(data, parent, files)
visit(acc, parent, names) ==
  IF ~ startswith_svn(parent) THEN visit_names(acc, parent, names) ELSE acc

RECURSIVE walk(_, _)
RECURSIVE walk_names(_, _, _)
\* os.path.walk(top, visit, None): visit the directory, then its subdirectories
walk(acc, top) ==
  LET names == listdir(top)
  IN walk_names(visit(acc, top, names), top, names)

walk_names(acc, top, names) ==
  IF names = {} THEN acc
  ELSE LET n    == CHOOSE x \in names : TRUE
           name == join(top, n)
       IN walk_names(IF isdir(name) THEN walk(acc, name) ELSE acc,
                     top, names \ {n})

----------------------------------------------------------------------------
(* BuildAudit: the store *)

\* the database file: whether it exists, whether its text is a JSON document,
\* and the dictionary the document holds
NoFile == [ exists |-> FALSE, parses |-> FALSE, content |-> EmptyDict ]

\* open(self.dbfile, "w"): the file exists and is empty; also any file whose
\* text json.load cannot parse
Truncated == [ exists |-> TRUE, parses |-> FALSE, content |-> EmptyDict ]

\* the exception json.load(open(self.dbfile)) ends with, "" if it returns
json_load_raises(f) ==
  IF ~ f.exists THEN "IOError"
  ELSE IF ~ f.parses THEN "ValueError"
  ELSE ""

\* json.load(open(self.dbfile)), IOError caught
json_load(f) == IF f.exists THEN f.content ELSE EmptyDict

\* json.dump(self.db, fp)
json_dump(d) == [ exists |-> TRUE, parses |-> TRUE, content |-> d ]

\* BuildAudit(dbname): "except IOError" is the only handler; the caller goes
\* on at the position next
construct_to(next) ==
  /\ pc = "new"
  /\ IF json_load_raises(dbfile) \in { "", "IOError" }
     THEN /\ db' = json_load(dbfile)
          /\ pc' = next
          /\ UNCHANGED status
     ELSE /\ pc' = "raised"
          /\ status' = json_load_raises(dbfile)
          /\ UNCHANGED db
  /\ db_pre' = db'
  /\ new_targets' = EmptyDict
  /\ UNCHANGED << treeVars, prereqs, intermediates, terminals, unused, lost,
                  dbfile, dbwrites, warned, key, replace, dbfile_pre,
                  clockVars, opts, log, results >>

\* the store is constructed by a caller that has the tree set up
construct == construct_to("ready")

\* all_keys()
all_keys == DOMAIN db

RECURSIVE old_data_first(_, _)
\* old_data returning at the first key it finds
old_data_first(keys, category) ==
  IF keys = << >> THEN EmptyDict
  ELSE IF Head(keys) \in DOMAIN db THEN db[Head(keys)][category]
  ELSE old_data_first(Tail(keys), category)

RECURSIVE old_data(_, _)
\* old_data(keys, category): "for key in keys: if key in self.db: ..."
old_data(keys, category) ==
  IF keys = << >> THEN EmptyDict
  ELSE LET k    == keys[Len(keys)]
           rest == old_data(SubSeq(keys, 1, Len(keys) - 1), category)
       IN IF k \in DOMAIN db THEN dict_update(rest, db[k][category]) ELSE rest

old_prereqs(keys) == old_data(keys, "PREREQS")

old_intermediates(keys) == old_data(keys, "INTERMEDIATES")

old_terminals(keys) == old_data(keys, "TERMINALS")

old_unused(keys) == old_data(keys, "UNUSED")

\* old_targets(keys)
old_targets(keys) ==
  dict_update(dict_update(EmptyDict, old_intermediates(keys)), old_terminals(keys))

\* has(key)
has(k) == k \in DOMAIN db

argv == << "AuditBuild", "make" >>

\* the record update stores
new_record(pass, bldtime, baseurl) ==
  [ PREREQS       |-> pass.prereqs,
    INTERMEDIATES |-> pass.intermediates,
    TERMINALS     |-> pass.terminals,
    UNUSED        |-> pass.unused,
    COMMENT       |-> [ BLDTIME |-> bldtime, CMDLINE |-> argv,
                        REFTIME |-> reftime, BASEURL |-> baseurl ] ]

\* what update does with the pass: "if not prereqs: ... elif replace: ..."
update_branch_unguarded(pass, r) ==
  IF r THEN "replace" ELSE "none"

update_branch(pass, r) ==
  IF DOMAIN pass.prereqs = {} THEN "warn"
  ELSE IF r THEN "replace"
  ELSE "none"

\* the paths the pass has put into a category: those visit called lstat on
stated(pass) ==
  DOMAIN pass.prereqs \cup DOMAIN pass.intermediates
    \cup DOMAIN pass.terminals \cup DOMAIN pass.unused

\* update(key, basedir, bldtime, baseurl, replace); fault: the process is
\* stopped, or json.dump raises, after open(self.dbfile, "w") and before the
\* document is written; gone: the files deleted after os.listdir has listed
\* them and before visit stats them
update(k, bldtime, baseurl, r, fault, gone) ==
  /\ pc = "ready"
  /\ gone \subseteq { p \in RegularPaths : files[p].ex }
  /\ lost' = gone
  /\ key' = k
  /\ replace' = r
  /\ db_pre' = db
  /\ dbfile_pre' = dbfile
  /\ files' = walk_touches(files)
  /\ \E pass \in { walk(EmptyPass, basedir) } :
       IF \E p \in stated(pass) : lstat_raises(basedir \o p, gone)
       THEN \* os.lstat raises OSError in visit; nothing catches it
            /\ pc' = "raised"
            /\ status' = "OSError"
            /\ UNCHANGED << prereqs, intermediates, terminals, unused,
                            new_targets, db, dbfile, dbwrites, warned >>
       ELSE
       /\ prereqs' = pass.prereqs
       /\ intermediates' = pass.intermediates
       /\ terminals' = pass.terminals
       /\ unused' = pass.unused
       /\ new_targets' = dict_update(dict_update(new_targets, pass.intermediates),
                                     pass.terminals)
       /\ CASE update_branch(pass, r) = "warn" ->
                 /\ warned' = warned \cup { "empty prereq set" }
                 /\ pc' = "done"
                 /\ UNCHANGED << db, dbfile, dbwrites, status >>
            [] update_branch(pass, r) = "replace" ->
                 /\ db' = dict_set(db, k, new_record(pass, bldtime, baseurl))
                 /\ dbwrites' = dbwrites + 1
                 /\ IF fault
                    THEN /\ dbfile' = Truncated
                         /\ pc' = "raised"
                         /\ status' = "stopped in dump"
                    ELSE /\ dbfile' = json_dump(db')
                         /\ pc' = "done"
                         /\ UNCHANGED status
                 /\ UNCHANGED warned
            [] OTHER ->
                 /\ pc' = "done"
                 /\ UNCHANGED << db, dbfile, dbwrites, warned, status >>
  /\ UNCHANGED << basedir, pre_existing, reftime, clockVars, opts, log, results >>

----------------------------------------------------------------------------
(* The file system: its clock and the stamps it sets *)

Grans == { 1, 2 }

\* the time stamp the file system records at clock value t
Stamp(t) == (t \div gran) * gran

\* the clock moves on (it never goes backwards)
Tick ==
  /\ now < MaxNow
  /\ now' = now + 1
  /\ UNCHANGED << pc, treeVars, passVars, storeVars, gran, noatime_fs,
                  mtime1, atime1, mtime2, atime2, era, mainVars >>

\* a command reads the file p
fs_read(f, p) ==
  IF noatime_fs THEN f
  ELSE [f EXCEPT ![p] = [@ EXCEPT !.at = Stamp(now)]]

\* a command writes the file p, creating it if need be
fs_write(f, p) ==
  IF f[p].ex
  THEN [f EXCEPT ![p] = [@ EXCEPT !.mt = Stamp(now)]]
  ELSE [f EXCEPT ![p] = [ex |-> TRUE, at |-> Stamp(now), mt |-> Stamp(now)]]

\* the phase of the run a stamp is set in
Phase == IF pc = "start" THEN "before" ELSE "after"

\* the commands run before setup (the copy-out) and after it (the prebuild
\* commands and the build) read and write the files of the tree
Read(p) ==
  /\ pc \in { "start", "ready" }
  /\ files[p].ex
  /\ ~ noatime_fs
  /\ files' = fs_read(files, p)
  /\ era' = [era EXCEPT ![p] = [@ EXCEPT !.at = Phase]]
  /\ UNCHANGED << pc, basedir, pre_existing, reftime, passVars, storeVars,
                  now, gran, noatime_fs, mtime1, atime1, mtime2, atime2, mainVars >>

Write(p) ==
  /\ pc \in { "start", "ready" }
  /\ files' = fs_write(files, p)
  /\ era' = [era EXCEPT ![p] = IF files[p].ex
                               THEN [@ EXCEPT !.mt = Phase]
                               ELSE [at |-> Phase, mt |-> Phase]]
  /\ UNCHANGED << pc, basedir, pre_existing, reftime, passVars, storeVars,
                  now, gran, noatime_fs, mtime1, atime1, mtime2, atime2, mainVars >>

----------------------------------------------------------------------------
(* BuildAudit.setup *)

\* the walk of setup: every file below indir, the directories whose name
\* starts with '.svn' pruned
snapshot ==
  { p \in Paths : /\ files[p].ex
                  /\ \A i \in 1 .. (Len(p) - 1) : p[i] \notin SvnNames }

\* open(ref, "w+"): the file is created, or truncated if it exists
open_w(f, p) ==
  IF f[p].ex
  THEN [f EXCEPT ![p] = [@ EXCEPT !.mt = Stamp(now)]]
  ELSE [f EXCEPT ![p] = [ex |-> TRUE, at |-> Stamp(now), mt |-> Stamp(now)]]

\* os.remove(ref)
remove(f, p) == [f EXCEPT ![p] = NoStat]

\* "if this_mtime > previous: break"
past(this_mtime, previous) == this_mtime > previous

\* ref_sample storing the first sample
ref_sample_first(m1, m2) == m1

\* the value setup stores as the reference time when the access time moved
ref_sample(m1, m2) == m2

\* lines 89-97: the pre-existing set is taken, then the sampling starts
setup_begin ==
  /\ pc = "start"
  /\ pc' = "sample1"
  /\ pre_existing' = snapshot
  /\ UNCHANGED << basedir, files, reftime, passVars, storeVars, clockVars,
                  mainVars >>

\* time.sleep(0.1) returns and the loop of get_time_past takes its next turn
sleep ==
  /\ pc \in { "sleep1", "sleep2" }
  /\ pc' = IF pc = "sleep1" THEN "sample1" ELSE "sample2"
  /\ UNCHANGED << treeVars, passVars, storeVars, clockVars, mainVars >>

\* one turn of the loop of get_time_past(0)
get_time_past_1 ==
  /\ pc = "sample1"
  /\ LET opened == open_w(files, RefPath)
         stats  == opened[RefPath]
     IN IF past(stats.mt, 0)
        THEN /\ files' = opened
             /\ mtime1' = stats.mt
             /\ atime1' = stats.at
             /\ pc' = "sample2"
        ELSE /\ files' = remove(opened, RefPath)
             /\ pc' = "sleep1"
             /\ UNCHANGED << mtime1, atime1 >>
  /\ UNCHANGED << basedir, pre_existing, reftime, passVars, storeVars,
                  now, gran, noatime_fs, mtime2, atime2, era, mainVars >>

\* one turn of the loop of get_time_past(mtime1); when it leaves the loop,
\* setup stores the reference time and returns
get_time_past_2 ==
  /\ pc = "sample2"
  /\ LET opened == open_w(files, RefPath)
         stats  == opened[RefPath]
     IN IF past(stats.mt, mtime1)
        THEN /\ mtime2' = stats.mt
             /\ atime2' = stats.at
             /\ IF stats.at > atime1
                THEN /\ reftime' = ref_sample(mtime1, stats.mt)
                     /\ files' = opened
                ELSE /\ reftime' = -1
                     /\ files' = remove(opened, RefPath)
             /\ pc' = "ready"
        ELSE /\ files' = remove(opened, RefPath)
             /\ pc' = "sleep2"
             /\ UNCHANGED << mtime2, atime2, reftime >>
  /\ UNCHANGED << basedir, pre_existing, passVars, storeVars,
                  now, gran, noatime_fs, mtime1, atime1, era, mainVars >>

\* noatime()
noatime == reftime = -1

InitSetup ==
  /\ pc = "start"
  /\ basedir \in BaseDirs
  /\ gran \in Grans
  /\ now = gran
  /\ noatime_fs \in BOOLEAN
  /\ files \in [ Paths -> { NoStat, [ex |-> TRUE, at |-> Stamp(now), mt |-> Stamp(now)] } ]
  /\ ~ files[DbPath].ex
  /\ era = [ p \in Paths |-> [ at |-> "before", mt |-> "before" ] ]
  /\ pre_existing = {}
  /\ reftime = 0
  /\ mtime1 = 0
  /\ atime1 = 0
  /\ mtime2 = 0
  /\ atime2 = 0
  /\ dbfile = NoFile
  /\ db = json_load(dbfile)
  /\ new_targets = EmptyDict
  /\ lost = {}
  /\ prereqs = EmptyDict
  /\ intermediates = EmptyDict
  /\ terminals = EmptyDict
  /\ unused = EmptyDict
  /\ dbwrites = 0
  /\ warned = {}
  /\ key = "k1"
  /\ replace = FALSE
  /\ db_pre = db
  /\ dbfile_pre = dbfile
  /\ opts = NoOpts
  /\ status = "running"
  /\ log = << >>
  /\ results = NoResults

NextSetup ==
  \/ Tick
  \/ \E p \in RegularPaths : Read(p)
  \/ \E p \in RegularPaths : Write(p)
  \/ setup_begin
  \/ get_time_past_1
  \/ get_time_past_2
  \/ sleep

SpecSetup == InitSetup /\ [][NextSetup]_vars

\* the clock moves before setup only
TickBefore == pc = "start" /\ Tick

\* setup on a file system whose clock shows no forward tick once setup has
\* begun; the process keeps running: a sleep returns, a turn of a loop is taken
NextStuck ==
  \/ TickBefore
  \/ \E p \in RegularPaths : Read(p)
  \/ \E p \in RegularPaths : Write(p)
  \/ setup_begin
  \/ get_time_past_1
  \/ get_time_past_2
  \/ sleep

SpecStuck ==
  /\ InitSetup
  /\ [][NextStuck]_vars
  /\ WF_vars(setup_begin)
  /\ WF_vars(get_time_past_1)
  /\ WF_vars(get_time_past_2)
  /\ WF_vars(sleep)

----------------------------------------------------------------------------
(* The specification of one call of update: the tree, the reference time,   *)
(* the pre-existing set and the stored database are drawn from bounded sets *)

Stamps == 0 .. MaxStamp

FileStates == { NoStat } \cup [ ex : {TRUE}, at : Stamps, mt : Stamps ]

OldRecord(P, I, T, U) ==
  [ PREREQS       |-> [ x \in P |-> "P" ],
    INTERMEDIATES |-> [ x \in I |-> "I" ],
    TERMINALS     |-> [ x \in T |-> "T" ],
    UNUSED        |-> [ x \in U |-> "U" ],
    COMMENT       |-> [ BLDTIME |-> "0:00:09", CMDLINE |-> argv,
                        REFTIME |-> 0, BASEURL |-> "svn://old" ] ]

\* the databases a former run may have left in the database file
StoredFiles ==
  { NoFile,
    Truncated,
    json_dump([ x \in {"k1"} |-> OldRecord({<<"a.c">>}, {}, {<<"old.o">>}, {<<"old.c">>}) ]),
    json_dump([ x \in {"k1", "k2"} |->
                  IF x = "k1"
                  THEN OldRecord({<<"old.h">>}, {<<"sub", "a.o">>}, {}, {})
                  ELSE OldRecord({<<"a.c">>}, {}, {<<"prog">>}, {}) ]) }

\* a file last read and written before the reference time was taken
Old == [ ex |-> TRUE, at |-> 0, mt |-> 0 ]

\* the tree update walks: the regular files carry any stamps; the reference
\* file is the one setup left; the database file is in the tree if it exists,
\* was there before the build and was last read when the store was constructed
Init ==
  /\ pc = "new"
  /\ basedir \in BaseDirs
  /\ reftime \in 1 .. MaxStamp
  /\ dbfile \in StoredFiles
  /\ \E reg \in [ RegularPaths -> FileStates ],
        ref \in { NoStat, [ ex |-> TRUE, at |-> reftime, mt |-> reftime ] },
        svn \in { NoStat, Old } :
       files = [ p \in Paths |->
                   IF p \in RegularPaths THEN reg[p]
                   ELSE IF p = RefPath THEN ref
                   ELSE IF p = SvnPath THEN svn
                   ELSE IF dbfile.exists THEN Old ELSE NoStat ]
  /\ \E pre \in SUBSET RegularPaths :
       pre_existing = pre \cup { p \in { DbPath } : files[p].ex }
  /\ db = EmptyDict
  /\ new_targets = EmptyDict
  /\ lost = {}
  /\ prereqs = EmptyDict
  /\ intermediates = EmptyDict
  /\ terminals = EmptyDict
  /\ unused = EmptyDict
  /\ dbwrites = 0
  /\ warned = {}
  /\ key = "k1"
  /\ replace = FALSE
  /\ db_pre = db
  /\ dbfile_pre = dbfile
  /\ now = 0
  /\ gran = 1
  /\ noatime_fs = FALSE
  /\ mtime1 = 0
  /\ atime1 = 0
  /\ mtime2 = 0
  /\ atime2 = 0
  /\ era = [ p \in Paths |-> [ at |-> "before", mt |-> "before" ] ]
  /\ opts = NoOpts
  /\ status = "running"
  /\ log = << >>
  /\ results = NoResults

\* at most one file is deleted during a pass
Goners == { {} } \cup { { p } : p \in RegularPaths }

Next ==
  \/ construct
  \/ \E k \in Keys, r \in BOOLEAN, fault \in BOOLEAN, gone \in Goners :
       update(k, "0:00:01", "svn://repo", r, fault, gone)

Spec == Init /\ [][Next]_vars

----------------------------------------------------------------------------
(* AuditBuild.main *)

\* sys.exit(code)
exit(code) ==
  /\ pc' = "exited"
  /\ status' = code

\* an exception leaves main
raise(exception) ==
  /\ pc' = "raised"
  /\ status' = exception

\* lines 85-121: the directories, the build command, the store and the key
main_begin == construct_to("dispatch")

\* lines 123-132: a dry run ends main; a special case runs the prebuild
\* commands and the build command without an audit
main_dispatch ==
  /\ pc = "dispatch"
  /\ CASE opts.mode = "dry_run" ->
            /\ exit("0")
            /\ UNCHANGED log
       [] opts.mode = "special" ->
            IF opts.prebuild_ok
            THEN /\ raise("TypeError")
                 /\ log' = log \o << "prebuild", "execute_in" >>
            ELSE /\ exit("2")
                 /\ log' = Append(log, "prebuild")
       [] OTHER ->
            /\ pc' = "has_key"
            /\ UNCHANGED << status, log >>
  /\ UNCHANGED << treeVars, passVars, storeVars, clockVars, opts, results >>

\* lines 134-142: a key without a record makes the run a fresh one
main_has_key ==
  /\ pc = "has_key"
  /\ pc' = "copy_out"
  /\ opts' = IF has(key) THEN opts ELSE [opts EXCEPT !.fresh = TRUE]
  /\ UNCHANGED << treeVars, passVars, storeVars, clockVars, status, log, results >>

\* the files rsync copies out to the build tree: never the database file; on a
\* fresh run all but the '.svn*' names, else the prerequisites of the key
copied(p) ==
  /\ files[p].ex
  /\ p # DbPath
  /\ IF opts.fresh THEN ~ UnderSvn(p) ELSE p \in DOMAIN old_prereqs(<< key >>)

\* lines 144-178: with an external base the build tree is filled by rsync -a
\* (modification times kept, the copies are new files); files is the tree the
\* build runs in
main_copy_out ==
  /\ pc = "copy_out"
  /\ IF opts.external_base
     THEN IF opts.rsync_ok
          THEN /\ files' = [ p \in Paths |->
                               IF copied(p)
                               THEN [ ex |-> TRUE, at |-> Stamp(now), mt |-> files[p].mt ]
                               ELSE NoStat ]
               /\ pc' = "start"
               /\ log' = Append(log, "copy_out")
               /\ UNCHANGED status
          ELSE /\ exit("2")
               /\ log' = Append(log, "copy_out")
               /\ UNCHANGED files
     ELSE /\ pc' = "start"
          /\ UNCHANGED << files, status, log >>
  /\ UNCHANGED << basedir, pre_existing, reftime, passVars, storeVars, clockVars,
                  opts, results >>

\* lines 182-186: the prebuild commands
main_prebuild ==
  /\ pc = "ready"
  /\ log' = Append(log, "prebuild")
  /\ IF opts.prebuild_ok
     THEN /\ pc' = "build"
          /\ UNCHANGED status
     ELSE exit("2")
  /\ UNCHANGED << treeVars, passVars, storeVars, clockVars, opts, results >>

\* line 188: bldcmd.execute_in(bwd, start_time); GMakeCommand.execute_in is
\* defined as execute_in(self, dir), so the call raises TypeError before any
\* command is run, and main is left
main_execute_in ==
  /\ pc = "build"
  /\ raise("TypeError")
  /\ log' = Append(log, "execute_in")
  /\ UNCHANGED << treeVars, passVars, storeVars, clockVars, opts, results >>

\* the clock moves on while setup samples it
TickSampling == pc \in { "sample2", "sleep1", "sleep2" } /\ Tick

\* the trees and databases main is started on
InitMain ==
  /\ pc = "new"
  /\ basedir \in BaseDirs
  /\ gran \in Grans
  /\ now = gran
  /\ noatime_fs \in BOOLEAN
  /\ dbfile \in StoredFiles
  /\ \E reg \in [ RegularPaths -> { NoStat, [ex |-> TRUE, at |-> Stamp(now), mt |-> Stamp(now)] } ] :
       files = [ p \in Paths |->
                   IF p \in RegularPaths THEN reg[p]
                   ELSE IF p = DbPath /\ dbfile.exists
                   THEN [ex |-> TRUE, at |-> Stamp(now), mt |-> Stamp(now)]
                   ELSE NoStat ]
  /\ era = [ p \in Paths |-> [ at |-> "before", mt |-> "before" ] ]
  /\ pre_existing = {}
  /\ reftime = 0
  /\ mtime1 = 0
  /\ atime1 = 0
  /\ mtime2 = 0
  /\ atime2 = 0
  /\ db = EmptyDict
  /\ new_targets = EmptyDict
  /\ lost = {}
  /\ prereqs = EmptyDict
  /\ intermediates = EmptyDict
  /\ terminals = EmptyDict
  /\ unused = EmptyDict
  /\ dbwrites = 0
  /\ warned = {}
  /\ key \in Keys
  /\ replace = FALSE
  /\ db_pre = db
  /\ dbfile_pre = dbfile
  /\ opts \in Options
  /\ status = "running"
  /\ log = << >>
  /\ results = NoResults

NextMain ==
  \/ main_begin
  \/ main_dispatch
  \/ main_has_key
  \/ main_copy_out
  \/ setup_begin
  \/ get_time_past_1
  \/ get_time_past_2
  \/ sleep
  \/ TickSampling
  \/ main_prebuild
  \/ main_execute_in

SpecMain == InitMain /\ [][NextMain]_vars

----------------------------------------------------------------------------
(* AuditMake.py: the older store (its own class BuildAudit) and its main *)

\* the value visit stores for a path: the letter and the two deltas
AuditMake_value(letter, adelta, mdelta) == << letter, adelta, mdelta >>

\* str.startswith('.') of a path string
AuditMake_startswith_dot(parent) ==
  Len(parent) > 0 /\ Head(parent) \in SvnNames \cup { ref_file }

\* the body of the loop of visit for the name f of the directory parent; acc
\* holds self.new_prereqs, self.new_interms, self.new_targets, self.new_notused
AuditMake_visit_one(acc, parent, f) ==
  LET path == join(parent, f) IN
  IF isdir(path) THEN acc
  ELSE LET rpath  == relpath(path, basedir)
           stats  == lstat(path)
           adelta == stats.at - reftime
           mdelta == stats.mt - reftime
       IN IF mdelta >= 0
          THEN IF adelta > mdelta
               THEN [acc EXCEPT !.intermediates =
                       dict_set(@, rpath, AuditMake_value("I", adelta, mdelta))]
               ELSE [acc EXCEPT !.terminals =
                       dict_set(@, rpath, AuditMake_value("T", adelta, mdelta))]
          ELSE IF adelta >= 0
               THEN [acc EXCEPT !.prereqs =
                       dict_set(@, rpath, AuditMake_value("P", adelta, mdelta))]
               ELSE [acc EXCEPT !.unused =
                       dict_set(@, rpath, AuditMake_value("N", adelta, mdelta))]

RECURSIVE AuditMake_visit_names(_, _, _)
\* for f in files
AuditMake_visit_names(acc, parent, names) ==
  IF names = {} THEN acc
  ELSE LET f == CHOOSE n \in names : TRUE
       IN AuditMake_visit_names(AuditMake_visit_one(acc, parent, f), parent, names \ {f})

\* visit(data, parent, files)
AuditMake_visit(acc, parent, names) ==
  IF ~ AuditMake_startswith_dot(parent)
  THEN AuditMake_visit_names(acc, parent, names)
  ELSE acc

RECURSIVE AuditMake_walk(_, _)
RECURSIVE AuditMake_walk_names(_, _, _)
\* os.path.walk(basedir, visit, None)
AuditMake_walk(acc, top) ==
  LET names == listdir(top)
  IN AuditMake_walk_names(AuditMake_visit(acc, top, names), top, names)

AuditMake_walk_names(acc, top, names) ==
  IF names = {} THEN acc
  ELSE LET n    == CHOOSE x \in names : TRUE
           name == join(top, n)
       IN AuditMake_walk_names(IF isdir(name) THEN AuditMake_walk(acc, name) ELSE acc,
                               top, names \ {n})

\* the record of a key that is replaced or new
AuditMake_empty_record ==
  [ PREREQS |-> EmptyDict, INTERMS |-> EmptyDict, TARGETS |-> EmptyDict,
    NOTUSED |-> EmptyDict, CMDLINE |-> argv ]

\* the record update stores: old is the record of the key, pass the
\* dictionaries of this pass; new.update(old) keeps the old value of a path
\* that both hold
AuditMake_merged(old, pass) ==
  [ PREREQS |-> dict_update(pass.prereqs, old.PREREQS),
    INTERMS |-> dict_update(pass.intermediates, old.INTERMS),
    TARGETS |-> dict_update(pass.terminals, old.TARGETS),
    NOTUSED |-> pass.unused,
    CMDLINE |-> argv,
    REFTIME |-> reftime ]

\* "if set(self.new_prereqs) - set(old_prqs) or ..."
AuditMake_adds(old, pass) ==
  \/ DOMAIN pass.prereqs \ DOMAIN old.PREREQS # {}
  \/ DOMAIN pass.intermediates \ DOMAIN old.INTERMS # {}
  \/ DOMAIN pass.terminals \ DOMAIN old.TARGETS # {}

\* main calls update whatever the build returned
AuditMake_audits_always(rc) == TRUE

\* "if rc == 0: audit.update(...)"
AuditMake_audits(rc) == rc = "0"

\* the options of AuditMake: --fresh and the flags of make; no --local-dir
AuditMake_Options ==
  { o \in Options : ~ o.external_base /\ o.prebuild_ok /\ o.rsync_ok }

\* the time stamps of the files after a build: before, at and after the
\* reference time of the run
AuditMake_Stamps == { 0, 1, 2 }

\* the trees a build leaves: the first file with any stamps, the others
\* absent, untouched, read or written
AuditMake_Trees ==
  { [ p \in Paths |-> IF p \in RegularPaths THEN reg[p] ELSE NoStat ] :
      reg \in { r \in [ RegularPaths ->
                          { NoStat } \cup [ ex : {TRUE}, at : AuditMake_Stamps,
                                            mt : AuditMake_Stamps ] ] :
                  \A p \in RegularPaths \ { << "a.c" >> } :
                    r[p].ex => << r[p].at, r[p].mt >> \in { <<0, 0>>, <<1, 0>>, <<1, 1>> } } }

\* the keys AuditMake is run with
AuditMake_Keys == { "k1" }

\* main up to the build: BuildAudit(dbdir) loads the database, a dry run
\* ends main
AuditMake_begin ==
  /\ pc = "new"
  /\ dbfile_pre' = dbfile
  /\ IF json_load_raises(dbfile) = "ValueError"
     THEN /\ raise("ValueError")
          /\ UNCHANGED db
     ELSE /\ db' = json_load(dbfile)
          /\ IF opts.mode = "dry_run"
             THEN exit("0")
             ELSE /\ pc' = "build"
                  /\ UNCHANGED status
  /\ db_pre' = db'
  /\ prereqs' = EmptyDict
  /\ intermediates' = EmptyDict
  /\ terminals' = EmptyDict
  /\ unused' = EmptyDict
  /\ UNCHANGED << treeVars, new_targets, lost, dbfile, dbwrites, warned, key,
                  replace, clockVars, opts, log, results >>

\* audit.get_reftime(lwd) and bldcmd.execute_in(lwd): the build leaves the
\* tree and returns rc; a special case of make is run without an audit
AuditMake_execute_in(tree, rc) ==
  /\ pc = "build"
  /\ IF opts.mode = "special"
     THEN UNCHANGED reftime
     ELSE reftime' \in { t \in AuditMake_Stamps :
                           t - 1 \in AuditMake_Stamps /\ t + 1 \in AuditMake_Stamps }
  /\ files' = tree
  /\ log' = Append(log, "execute_in")
  /\ status' = rc
  /\ pc' = IF opts.mode # "special" /\ AuditMake_audits(rc) THEN "update" ELSE "exited"
  /\ UNCHANGED << basedir, pre_existing, passVars, storeVars, clockVars,
                  opts, results >>

\* audit.update(key, build_base, options.fresh), and main returns rc
AuditMake_update(k, r) ==
  /\ pc = "update"
  /\ pc' = "exited"
  /\ key' = k
  /\ replace' = r
  /\ log' = Append(log, "update")
  /\ \E pass \in { AuditMake_walk([ prereqs |-> prereqs, intermediates |-> intermediates,
                                    terminals |-> terminals, unused |-> unused ],
                                  basedir) } :
       IF DOMAIN pass.prereqs = {}
       THEN /\ warned' = warned \cup { "empty prereq set" }
            /\ prereqs' = pass.prereqs
            /\ intermediates' = pass.intermediates
            /\ terminals' = pass.terminals
            /\ unused' = pass.unused
            /\ UNCHANGED << db, dbfile, dbwrites >>
       ELSE LET db1 == IF r \/ ~ has(k)
                       THEN dict_set(db, k, AuditMake_empty_record)
                       ELSE db
                rec == AuditMake_merged(db1[k], pass)
            IN IF AuditMake_adds(db1[k], pass)
               THEN /\ prereqs' = rec.PREREQS
                    /\ intermediates' = rec.INTERMS
                    /\ terminals' = rec.TARGETS
                    /\ unused' = pass.unused
                    /\ db' = dict_set(db1, k, rec)
                    /\ dbfile' = json_dump(db')
                    /\ dbwrites' = dbwrites + 1
                    /\ UNCHANGED warned
               ELSE /\ prereqs' = pass.prereqs
                    /\ intermediates' = pass.intermediates
                    /\ terminals' = pass.terminals
                    /\ unused' = pass.unused
                    /\ db' = db1
                    /\ UNCHANGED << dbfile, dbwrites, warned >>
  /\ UNCHANGED << treeVars, new_targets, lost, db_pre, dbfile_pre, clockVars,
                  opts, status, results >>

\* the command is run once more, later, with other options, in a tree that
\* was cleaned: what the process held in memory is gone, the database file
\* stays
AuditMake_again ==
  /\ pc = "exited"
  /\ pc' = "new"
  /\ opts' \in AuditMake_Options
  /\ status' = "running"
  /\ log' = << >>
  /\ db' = EmptyDict
  /\ db_pre' = EmptyDict
  /\ dbfile_pre' = dbfile
  /\ prereqs' = EmptyDict
  /\ intermediates' = EmptyDict
  /\ terminals' = EmptyDict
  /\ unused' = EmptyDict
  /\ dbwrites' = 0
  /\ warned' = {}
  /\ replace' = FALSE
  /\ files' = [ p \in Paths |-> NoStat ]
  /\ reftime' = 0
  /\ UNCHANGED << basedir, pre_existing, new_targets, lost, dbfile, key,
                  clockVars, results >>

InitMake ==
  /\ InitMain
  /\ gran = 1
  /\ ~ noatime_fs
  /\ dbfile = NoFile
  /\ key \in AuditMake_Keys
  /\ opts \in AuditMake_Options
  /\ \A p \in Paths : ~ files[p].ex

NextMake ==
  \/ AuditMake_begin
  \/ \E tree \in AuditMake_Trees, rc \in { "0", "1" } : AuditMake_execute_in(tree, rc)
  \/ \E k \in AuditMake_Keys : AuditMake_update(k, opts.fresh)
  \/ AuditMake_again

SpecMake == InitMake /\ [][NextMake]_vars

----------------------------------------------------------------------------
(* The classification claims *)

\* the files the pass reaches: they exist, are not named like the reference
\* file and no component of their directory makes visit skip it
Visited ==
  { p \in Paths : /\ files[p].ex
                  /\ p[Len(p)] # ref_file
                  /\ ~ startswith_svn(basedir \o SubSeq(p, 1, Len(p) - 1)) }

aDelta(p) == files[p].at - reftime

mDelta(p) == files[p].mt - reftime

Guarded(p) == aDelta(p) >= 0 /\ p \in pre_existing

Categories == << DOMAIN prereqs, DOMAIN intermediates, DOMAIN terminals, DOMAIN unused >>

\* C1: after a pass the key sets of prereqs, intermediates, terminals and
\* unused are pairwise disjoint and their union is the set of visited files
C1_Partition ==
  pc = "done" =>
    /\ \A i, j \in 1 .. 4 : i # j => Categories[i] \cap Categories[j] = {}
    /\ UNION { Categories[i] : i \in 1 .. 4 } = Visited

\* two visited files in two categories, one of them caught by the guard while
\* written, and the reference file in the tree
C1_Witness ==
  /\ pc = "done"
  /\ files[RefPath].ex
  /\ Visited = RegularPaths
  /\ \E p \in Visited : mDelta(p) >= 0 /\ Guarded(p) /\ p \in DOMAIN prereqs
  /\ DOMAIN terminals # {}

\* C2: a file read but not written since the reference time is a
\* Prerequisite, in the pre-existing set or not
C2_ReadNotWritten ==
  pc = "done" =>
    \A p \in Visited : (aDelta(p) >= 0 /\ mDelta(p) < 0) => p \in DOMAIN prereqs

\* C3: a pre-existing file written and read since the reference time is a
\* Prerequisite, whatever the order of its two deltas
C3_GuardFirst ==
  pc = "done" =>
    \A p \in Visited :
      (mDelta(p) >= 0 /\ aDelta(p) >= 0 /\ p \in pre_existing)
        => (p \in DOMAIN prereqs /\ prereqs[p] = "P")

C3_Witness ==
  /\ pc = "done"
  /\ \E p \in Visited :
       /\ p \in pre_existing
       /\ mDelta(p) >= 0
       /\ aDelta(p) > mDelta(p)
       /\ p \in DOMAIN prereqs

\* C4: a written file the guard does not catch is Intermediate exactly when
\* its access delta exceeds its modification delta and Terminal otherwise;
\* written and not read since the reference time, it is no Prerequisite
C4_Split ==
  pc = "done" =>
    \A p \in Visited :
      /\ (mDelta(p) >= 0 /\ ~ Guarded(p)) =>
            /\ p \in DOMAIN intermediates <=> aDelta(p) > mDelta(p)
            /\ p \in DOMAIN terminals <=> ~ (aDelta(p) > mDelta(p))
      /\ (mDelta(p) >= 0 /\ aDelta(p) < 0) => p \notin DOMAIN prereqs

C4_Witness ==
  /\ pc = "done"
  /\ \E p \in Visited :
       /\ ~ Guarded(p)
       /\ mDelta(p) >= 0
       /\ aDelta(p) = mDelta(p)
       /\ p \in DOMAIN terminals
  /\ \E p \in Visited :
       /\ p \in pre_existing
       /\ mDelta(p) >= 0
       /\ aDelta(p) < 0
       /\ p \in DOMAIN terminals

\* C5: a file neither read nor written since the reference time is Unused
C5_Untouched ==
  pc = "done" =>
    \A p \in Visited :
      (aDelta(p) < 0 /\ mDelta(p) < 0) => (p \in DOMAIN unused /\ unused[p] = "U")

C5_Witness ==
  /\ pc = "done"
  /\ \E p \in Visited :
       /\ p \in pre_existing
       /\ aDelta(p) < 0
       /\ mDelta(p) < 0
       /\ p \in DOMAIN unused

----------------------------------------------------------------------------
(* The store claims *)

CategoryNames == { "PREREQS", "INTERMEDIATES", "TERMINALS", "UNUSED" }

\* the dictionaries of the last pass, by the names the record gives them
Pass ==
  [ PREREQS |-> prereqs, INTERMEDIATES |-> intermediates,
    TERMINALS |-> terminals, UNUSED |-> unused ]

\* C8: without replace, on a key that has a record and with a prerequisite
\* found, the record holds per category the stored paths and those of the pass
C8_Merge ==
  (pc = "done" /\ ~ replace /\ key \in DOMAIN db_pre /\ DOMAIN prereqs # {}) =>
    /\ key \in DOMAIN db
    /\ \A c \in CategoryNames :
         DOMAIN db[key][c] = (DOMAIN db_pre[key][c]) \cup (DOMAIN Pass[c])

\* C9: with replace, or on a key without a record, and with a prerequisite
\* found, the record is the four dictionaries of the pass, in memory and in
\* the database file
C9_Verbatim ==
  (pc = "done" /\ (replace \/ key \notin DOMAIN db_pre) /\ DOMAIN prereqs # {}) =>
    /\ key \in DOMAIN db
    /\ \A c \in CategoryNames : db[key][c] = Pass[c]
    /\ dbfile.exists
    /\ key \in DOMAIN dbfile.content
    /\ \A c \in CategoryNames : dbfile.content[key][c] = Pass[c]

\* C10: a pass without a prerequisite leaves the database file unwritten and
\* the database in memory as it was, and update returns with a warning
C10_EmptyPrereqs ==
  (pc = "done" /\ DOMAIN prereqs = {}) =>
    /\ dbwrites = 0
    /\ dbfile = dbfile_pre
    /\ db = db_pre
    /\ warned # {}

C10_Witness ==
  /\ pc = "done"
  /\ DOMAIN prereqs = {}
  /\ replace
  /\ key \in DOMAIN db_pre
  /\ DOMAIN terminals # {}
  /\ db = db_pre

----------------------------------------------------------------------------
(* The reference clock claims, under SpecSetup *)

\* the stamps of the tree that were set in the phase ph
StampsOf(ph) ==
  { files[p].at : p \in { q \in RegularPaths : files[q].ex /\ era[q].at = ph } }
    \cup
  { files[p].mt : p \in { q \in RegularPaths : files[q].ex /\ era[q].mt = ph } }

\* C6: once setup has returned with a reference time, every stamp set before
\* setup is below it and every stamp set after setup is at or above it
C6_RefTimeSeparates ==
  (pc = "ready" /\ ~ noatime) =>
    /\ \A t \in StampsOf("before") : t < reftime
    /\ \A t \in StampsOf("after") : t >= reftime

\* on the coarse file system: a file stamped before setup in the very tick of
\* the first sample, and a file stamped after setup in the tick of the
\* reference time
C6_Witness ==
  /\ pc = "ready"
  /\ ~ noatime
  /\ gran = 2
  /\ mtime1 \in StampsOf("before")
  /\ reftime \in StampsOf("after")

\* C7: the second sample of setup is not below the first, and a stored
\* reference time is the second sample and exceeds the first
C7_Samples ==
  pc = "ready" =>
    /\ mtime1 <= mtime2
    /\ ~ noatime => (reftime = mtime2 /\ reftime > mtime1)

C7_Witness ==
  /\ pc = "ready"
  /\ ~ noatime
  /\ reftime = mtime2
  /\ mtime2 = mtime1 + gran

\* C12: on a file system that does not record reads, setup ends with
\* noatime() true
C12_NoatimeDetected ==
  (pc = "ready" /\ noatime_fs) => noatime

\* C13: when the clock shows no forward tick between the samples, the
\* sampling of setup comes to an end (SpecStuck)
C13_SamplingStops ==
  <>(pc = "ready" \/ status = "fatal")

----------------------------------------------------------------------------
(* The store claims *)

\* C15: the database file always holds the complete database of before the
\* update or the complete database of after it, also when the run is stopped
\* between open(self.dbfile, "w") and the end of the dump
C15_AllOrNothing ==
  dbfile = dbfile_pre \/ dbfile = json_dump(db)

\* the key lists of the queries
KeyLists == UNION { [ 1 .. n -> Keys ] : n \in 0 .. MaxKeys }

\* one of old_prereqs, old_intermediates, old_terminals, old_unused is called
query(keys, category) ==
  /\ pc = "ready"
  /\ results' = [ call |-> category, keys |-> keys,
                  value |-> CASE category = "PREREQS" -> old_prereqs(keys)
                              [] category = "INTERMEDIATES" -> old_intermediates(keys)
                              [] category = "TERMINALS" -> old_terminals(keys)
                              [] OTHER -> old_unused(keys) ]
  /\ UNCHANGED << pc, treeVars, passVars, storeVars, clockVars, opts, status, log >>

\* old_targets is called
query_targets(keys) ==
  /\ pc = "ready"
  /\ results' = [ call |-> "TARGETS", keys |-> keys, value |-> old_targets(keys) ]
  /\ UNCHANGED << pc, treeVars, passVars, storeVars, clockVars, opts, status, log >>

\* the store is constructed on a stored database and queried
InitQuery ==
  /\ Init
  /\ reftime = 1
  /\ pre_existing \subseteq { DbPath }
  /\ \A p \in Paths \ { DbPath } : ~ files[p].ex

NextQuery ==
  \/ construct
  \/ \E keys \in KeyLists, category \in CategoryNames : query(keys, category)
  \/ \E keys \in KeyLists : query_targets(keys)

SpecQuery == InitQuery /\ [][NextQuery]_vars

\* the listed keys that have a record
Listed == { results.keys[i] : i \in DOMAIN results.keys } \cap DOMAIN db

\* C17: a category query returns the union, over the listed keys that have a
\* record, of the paths of the category, a listed key without a record adds
\* nothing and raises nothing; old_targets returns the union of the
\* intermediates and the terminals
C17_Union ==
  /\ results.call \in CategoryNames =>
       DOMAIN results.value = UNION { DOMAIN db[k][results.call] : k \in Listed }
  /\ results.call = "TARGETS" =>
       DOMAIN results.value =
         UNION { DOMAIN db[k]["INTERMEDIATES"] \cup DOMAIN db[k]["TERMINALS"] : k \in Listed }
  /\ results.call # "" => status = "running"

\* a query of two keys with different paths, and one that lists a key without
\* a record beside one with a record
C17_Witness ==
  /\ results.call \in CategoryNames
  /\ Len(results.keys) = 2
  /\ \/ /\ Cardinality(Listed) = 2
        /\ \A k \in Listed : DOMAIN db[k][results.call] # DOMAIN results.value
        /\ \A k \in Listed : DOMAIN db[k][results.call] # {}
     \/ /\ Cardinality(Listed) = 1
        /\ results.keys[1] \notin DOMAIN db
        /\ DOMAIN results.value # {}

\* the files the last pass put into a category
Categorised == UNION { Categories[i] : i \in 1 .. 4 }

\* C18: the pass puts neither the database file nor the reference file into
\* a category
C18_OwnFilesSkipped ==
  pc = "done" => Categorised \cap { DbPath, RefPath } = {}

\* C19: the pass puts no file below a .svn directory into a category
C19_SvnSkipped ==
  pc = "done" => \A p \in Categorised : ~ UnderSvn(p)

\* C20: constructed on a database file that exists and does not parse, the
\* store is empty and nothing is raised
C20_CorruptIsEmpty ==
  (pc # "new" /\ dbfile = Truncated /\ dbfile_pre = Truncated) =>
    /\ status = "running"
    /\ all_keys = {}
    /\ \A k \in Keys : ~ has(k)

----------------------------------------------------------------------------
(* The claims about main *)

\* main has ended
Ended == pc \in { "exited", "raised" }

\* the steps main has taken
Steps == { log[i] : i \in DOMAIN log }

\* what main ends with when it ends with the return code of the build
ReturnCodes == { "0", "1", "2" }

\* C11: when the second sample shows no newer access time, noatime() is true,
\* update is not called, the database file is not written, and the run that
\* got to its build command ends with the return code of the build
C11_NoatimeSkipsAudit ==
  (Ended /\ mtime2 > 0 /\ ~ (atime2 > atime1) /\ "execute_in" \in Steps) =>
    /\ noatime
    /\ "update" \notin Steps
    /\ dbwrites = 0
    /\ dbfile = dbfile_pre
    /\ pc = "exited"
    /\ status \in ReturnCodes

----------------------------------------------------------------------------
(* The claims about the reference clock on a file system with access times *)

\* C25: on a file system that records reads, setup ends with noatime() false
\* and the second modification time sample as reference time
C25_AtimeNotDegraded ==
  (pc = "ready" /\ ~ noatime_fs) => (~ noatime /\ reftime = mtime2)

----------------------------------------------------------------------------
(* The claims about the pass over a tree that changes or is walked again *)

\* C21: when a file cannot be stat-ed during the walk, it is skipped, every
\* other file is classified and update completes
C21_StatFailureSkipped ==
  (pc \in { "done", "raised" } /\ lost # {}) =>
    /\ pc = "done"
    /\ Categorised = Visited \ lost

C27_OtherKeysKept ==
  pc = "done" =>
    /\ DOMAIN db_pre \subseteq DOMAIN db
    /\ \A k \in DOMAIN db_pre \ { key } : db[k] = db_pre[k]
    /\ dbfile # dbfile_pre =>
         /\ DOMAIN dbfile_pre.content \subseteq DOMAIN dbfile.content
         /\ \A k \in DOMAIN dbfile_pre.content \ { key } :
              dbfile.content[k] = dbfile_pre.content[k]

\* update has rewritten a database file that held the records of two keys
C27_Witness ==
  /\ pc = "done"
  /\ dbfile # dbfile_pre
  /\ DOMAIN dbfile_pre.content = Keys
  /\ dbfile.content[key] # dbfile_pre.content[key]

----------------------------------------------------------------------------
(* The claims about the runs of main without an audit *)

\* C29: on a dry run, a special case of make or --execute-only, setup and
\* update are not called and the database file is not written; the dry run
\* does not execute the build command and exits with 0, the other two exit
\* with the return code of the build command, or with 2 when a prebuild
\* command fails
C29_NotAudited ==
  (Ended /\ pc # "new" /\ opts.mode # "audit" /\ json_load_raises(dbfile_pre) # "ValueError") =>
    /\ mtime1 = 0 /\ reftime = 0 /\ pre_existing = {}
    /\ "update" \notin Steps
    /\ dbwrites = 0 /\ dbfile = dbfile_pre
    /\ pc = "exited"
    /\ opts.mode = "dry_run" => (status = "0" /\ "execute_in" \notin Steps)
    /\ opts.mode = "special" =>
         IF opts.prebuild_ok THEN status \in ReturnCodes ELSE status = "2"

----------------------------------------------------------------------------
(* The claims about AuditMake.py *)

AuditMake_Categories == { "PREREQS", "INTERMS", "TARGETS", "NOTUSED" }

\* the dictionaries of a pass over the tree as it is, by the names of the record
AuditMake_Pass ==
  LET pass == AuditMake_walk(EmptyPass, basedir)
  IN [ PREREQS |-> pass.prereqs, INTERMS |-> pass.intermediates,
       TARGETS |-> pass.terminals, NOTUSED |-> pass.unused ]

\* update has been called in this run and main has returned
AuditMake_Updated == pc = "exited" /\ "update" \in Steps

\* C23: update of AuditMake.py without replace, on a key that has a record,
\* with a prerequisite set that adds a path, stores per category the union of
\* the stored paths and the paths of the pass
C23_MergeAll ==
  ( /\ AuditMake_Updated
    /\ ~ replace
    /\ key \in DOMAIN db_pre
    /\ DOMAIN AuditMake_Pass.PREREQS \ DOMAIN db_pre[key].PREREQS # {} ) =>
    \A c \in AuditMake_Categories :
      /\ DOMAIN db[key][c] = DOMAIN db_pre[key][c] \cup DOMAIN AuditMake_Pass[c]
      /\ DOMAIN dbfile.content[key][c] = DOMAIN db_pre[key][c] \cup DOMAIN AuditMake_Pass[c]

C26_StoredDisjoint ==
  \A k \in DOMAIN dbfile.content :
    \A c, d \in AuditMake_Categories :
      c # d => DOMAIN dbfile.content[k][c] \cap DOMAIN dbfile.content[k][d] = {}

-----------------------------------------------------------------------------
(* AuditDump.py *)

\* the keys of the databases AuditDump.py reads and of its -k option
AuditDump_Keys == { "k", "k1", "k2" }

\* "for key in keys" over a str: the characters of the key, one by one
str_iter(k) ==
  CASE k = "k"  -> << "k" >>
    [] k = "1"  -> << "1" >>
    [] k = "2"  -> << "2" >>
    [] k = "k1" -> << "k", "1" >>
    [] k = "k2" -> << "k", "2" >>

\* the order of sorted() on the keys
AuditDump_KeyOrder == << "1", "2", "k", "k1", "k2" >>

\* sorted(self.db.keys())
sorted_keys(S) == SelectSeq(AuditDump_KeyOrder, LAMBDA x : x \in S)

\* the print options that select categories
AuditDump_Options ==
  { "print_prerequisites", "print_intermediates", "print_terminal_targets",
    "print_targets", "print_all", "print_unused" }

\* the calls one key of the loop makes under an option; the key is handed
\* over as it is, a str, where the callee iterates over its argument
AuditDump_one(k, option) ==
  CASE option = "print_prerequisites"    -> old_prereqs(str_iter(k))
    [] option = "print_intermediates"    -> old_intermediates(str_iter(k))
    [] option = "print_terminal_targets" -> old_terminals(str_iter(k))
    [] option = "print_targets"          -> old_targets(str_iter(k))
    [] option = "print_all"              ->
         dict_update(dict_update(EmptyDict, old_prereqs(str_iter(k))),
                     old_targets(str_iter(k)))
    [] OTHER                             -> old_unused(str_iter(k))

RECURSIVE AuditDump_loop(_, _)
\* "for key in keylist": a key without a record is passed over
AuditDump_loop(keylist, option) ==
  IF keylist = << >> THEN EmptyDict
  ELSE LET k    == keylist[Len(keylist)]
           rest == AuditDump_loop(SubSeq(keylist, 1, Len(keylist) - 1), option)
       IN IF ~ has(k) THEN rest ELSE dict_update(rest, AuditDump_one(k, option))

\* rc = 2 for a key without a record
AuditDump_rc(keylist) ==
  IF \E i \in DOMAIN keylist : ~ has(keylist[i]) THEN "2" ELSE "0"

\* the store is constructed on the database file
AuditDump_begin == construct_to("dump")

\* the key list is the -k option or, without it, every key of the database;
\* the results of the loop are printed and rc is returned
AuditDump_main(keys, option) ==
  /\ pc = "dump"
  /\ LET keylist == IF keys # << >> THEN keys ELSE sorted_keys(all_keys)
     IN IF keylist = << >>
        THEN /\ exit("2")
             /\ UNCHANGED results
        ELSE /\ results' = [ call |-> option, keys |-> keylist,
                             value |-> AuditDump_loop(keylist, option) ]
             /\ exit(AuditDump_rc(keylist))
  /\ UNCHANGED << treeVars, passVars, storeVars, clockVars, opts, log >>

\* the databases AuditDump.py is run on
AuditDump_StoredFiles ==
  { NoFile,
    Truncated,
    json_dump([ x \in {"k1"} |-> OldRecord({<<"a.c">>}, {}, {<<"old.o">>}, {<<"old.c">>}) ]),
    json_dump([ x \in {"k1", "k2"} |->
                  IF x = "k1"
                  THEN OldRecord({<<"old.h">>}, {<<"sub", "a.o">>}, {}, {})
                  ELSE OldRecord({<<"a.c">>}, {}, {<<"prog">>}, {}) ]),
    json_dump([ x \in {"k", "k1"} |->
                  IF x = "k"
                  THEN OldRecord({<<"a.c">>}, {}, {<<"prog">>}, {<<"old.c">>})
                  ELSE OldRecord({<<"old.h">>}, {<<"sub", "a.o">>}, {}, {}) ]) }

\* the -k options: no option, or a list of keys
AuditDump_KeyLists == UNION { [ 1 .. n -> AuditDump_Keys ] : n \in 0 .. MaxKeys }

InitDump ==
  /\ pc = "new"
  /\ basedir \in BaseDirs
  /\ reftime = 0
  /\ dbfile \in AuditDump_StoredFiles
  /\ files = [ p \in Paths |-> IF p = DbPath /\ dbfile.exists THEN Old ELSE NoStat ]
  /\ pre_existing = { p \in { DbPath } : files[p].ex }
  /\ db = EmptyDict
  /\ new_targets = EmptyDict
  /\ lost = {}
  /\ prereqs = EmptyDict
  /\ intermediates = EmptyDict
  /\ terminals = EmptyDict
  /\ unused = EmptyDict
  /\ dbwrites = 0
  /\ warned = {}
  /\ key = "k1"
  /\ replace = FALSE
  /\ db_pre = db
  /\ dbfile_pre = dbfile
  /\ now = 0
  /\ gran = 1
  /\ noatime_fs = FALSE
  /\ mtime1 = 0
  /\ atime1 = 0
  /\ mtime2 = 0
  /\ atime2 = 0
  /\ era = [ p \in Paths |-> [ at |-> "before", mt |-> "before" ] ]
  /\ opts = NoOpts
  /\ status = "running"
  /\ log = << >>
  /\ results = NoResults

NextDump ==
  \/ AuditDump_begin
  \/ \E keys \in AuditDump_KeyLists, option \in AuditDump_Options :
       AuditDump_main(keys, option)

SpecDump == InitDump /\ [][NextDump]_vars

\* the stored paths an option selects from the record of a key
AuditDump_stored(k, option) ==
  CASE option = "print_prerequisites"    -> DOMAIN db[k].PREREQS
    [] option = "print_intermediates"    -> DOMAIN db[k].INTERMEDIATES
    [] option = "print_terminal_targets" -> DOMAIN db[k].TERMINALS
    [] option = "print_targets"          ->
         DOMAIN db[k].INTERMEDIATES \cup DOMAIN db[k].TERMINALS
    [] option = "print_all"              ->
         DOMAIN db[k].PREREQS \cup DOMAIN db[k].INTERMEDIATES \cup DOMAIN db[k].TERMINALS
    [] OTHER                             -> DOMAIN db[k].UNUSED

\* C30: AuditDump.main prints the union, over the listed keys that have a
\* record, of the stored paths of the category asked for, whatever the length
\* of the keys; a listed key without a record adds nothing and makes the
\* return code 2, the other keys are still processed
C30_DumpUnion ==
  (pc = "exited" /\ results.call \in AuditDump_Options) =>
    /\ DOMAIN results.value =
         UNION { AuditDump_stored(k, results.call) : k \in Listed }
    /\ status = "2" <=> \E i \in DOMAIN results.keys : results.keys[i] \notin DOMAIN db

====
